---- MODULE Spec2Model ----
(***************************************************************************)
(* Generation-request pipeline of talemate's ClientBase                    *)
(* (src/talemate/client/base.py): rate-limit wait loop, precondition       *)
(* checks, the cancellable dispatch (generation task raced against the     *)
(* cancellation poll), the repetition-retry loop, request telemetry, and   *)
(* the exception boundary of send_prompt / revision_revise; and the three  *)
(* revision methods of the editor agent                                    *)
(* (src/talemate/agents/editor/revision.py): dedupe, rewrite, unslop.      *)
(***************************************************************************)
EXTENDS Integers, Sequences, FiniteSets, TLC

\* ------------------------------------------------------------------ bounds
MaxRetries == 2        \* largest retry budget passed to send_prompt
MaxRate == 2           \* largest configured rate_limit (requests per minute)
NumTicks == 2          \* how often the clock advances
TickStep == 30         \* seconds the clock advances in one Tick
Epoch == 1             \* value of time.time() in the initial state
MaxResponse == 3       \* longest provider response to the unslop request, in tokens
MaxIssues == 2         \* most repetition matches, and most bad-prose findings
MaxMinIssues == 3      \* largest configured min_issues
MaxSeconds == 4        \* seconds over which one RequestInformation is followed
MaxTokens == 2         \* largest count given to update_request_tokens, and total
MaxLines == 2          \* most lines of a prompt given to repetition_adjustment
MaxCut == 3            \* longest response searched for stopping strings, in tokens
MaxDepth == 3          \* most revision scopes open at once

\* -------------------------------------------------------- program constants
WindowSeconds == 60    \* the limiter's window: one minute
SleepSeconds == 1      \* asyncio.sleep(1) of the rate-limit wait loop


\* Abstract texts: "" empty, " " whitespace only, "rep" a text that echoes a
\* prompt line, "new" a text that does not.  "orig" is info.text of a revision.
Texts == {"", " ", "rep", "new"}

\* str.strip() on the abstract texts
Strip(t) == IF t = " " THEN "" ELSE t

VARIABLES
  scene,                \* active_scene.get(): exists / active / cancel_requested
  enabled,              \* ClientBase.enabled
  now,                  \* time.time()
  rate_limit,           \* ClientBase.rate_limit (0 stands for None)
  rate_limit_counter,   \* ClientBase.rate_limit_counter (None or a CounterRateLimiter)
  admit_log,            \* history: results of increment() in the current window
  pc,                   \* position of the request in send_prompt
  req,                  \* the inputs of the request in flight
  processing,           \* ClientBase.processing
  request_information,  \* ClientBase.request_information
  task_poll,            \* state of the task made by _poll_interrupt
  task_generate,        \* state of the task made by _generate_task
  gen_result,           \* result held by task_generate once done
  first_done,           \* history: which task of the pair completed first
  retries,              \* retries left in auto_break_repetition
  provider_calls,       \* history: calls of generate made by this request
  emitted,              \* history: notifications emitted by this request
  denied,               \* history: denied limiter attempts of this request
  wake_at,              \* when the wait loop's sleep ends
  flags,                \* history: what happened during this request
  outcome,              \* what left send_prompt: a return value or an exception
  revised,              \* what left revision_revise, when it is the caller
  abr,                  \* prompt, parameters and result of auto_break_repetition
  rev,                  \* the call of revision_revise on a generated text
  post,                 \* one call of a text step of the client, on its own
  ctx                   \* the ambient revision scopes and one generation signal

envvars == <<scene, enabled, now, rate_limit>>
callvars == <<rate_limit_counter, admit_log, pc, req, processing,
              request_information, task_poll, task_generate, gen_result,
              first_done, retries, provider_calls, emitted, denied, wake_at,
              flags, outcome, revised>>
cvars == <<callvars, abr>>
vars == <<scene, enabled, now, rate_limit, rate_limit_counter, admit_log, pc, req, processing,
          request_information, task_poll, task_generate, gen_result, first_done,
          retries, provider_calls, emitted, denied, wake_at, flags,
          outcome, revised, abr, rev, post, ctx>>

\* ------------------------------------------------------------------ scene
NoScene == [exists |-> FALSE, active |-> FALSE, cancel_requested |-> FALSE]
Scenes == {NoScene,
           [exists |-> TRUE, active |-> FALSE, cancel_requested |-> FALSE],
           [exists |-> TRUE, active |-> TRUE, cancel_requested |-> FALSE],
           [exists |-> TRUE, active |-> TRUE, cancel_requested |-> TRUE]}

\* the test of the poll task and of the wait loop:
\* not scene or not scene.active or scene.cancel_requested
Interrupted(s) == ~s.exists \/ ~s.active \/ s.cancel_requested

\* what a request meets: no scene context, a scene that is not active, a
\* disabled client, or none of these
CallState(s, en) ==
  IF ~s.exists THEN "no scene"
  ELSE IF ~s.active THEN "scene inactive"
  ELSE IF ~en THEN "client disabled"
  ELSE "ready"

\* ------------------------------------------------------- RequestInformation
\* request_information = NoRequestInformation, before the first request
NoRequestInformation == [start_time |-> 0, end_time |-> 0, tokens |-> 0]

NewRequestInformation(t) == [start_time |-> t, end_time |-> 0, tokens |-> 0]

Duration(ri, t) == (IF ri.end_time # 0 THEN ri.end_time ELSE t) - ri.start_time

\* rate == 0: tokens / duration is zero, or the division raised and 0 is returned
RateIsZero(ri, t) == ri.tokens = 0 \/ Duration(ri, t) = 0

StatusMut(ri, t) ==
  IF ri.start_time # 0 /\ Duration(ri, t) > 1 /\ RateIsZero(ri, t) THEN "stopped"
  ELSE IF ri.end_time # 0 THEN "completed"
  ELSE IF ri.start_time # 0 THEN "in progress"
  ELSE "pending"
Status(ri, t) ==
  IF ri.end_time # 0 THEN "completed"
  ELSE IF ri.start_time # 0
       THEN IF Duration(ri, t) > 1 /\ RateIsZero(ri, t) THEN "stopped"
            ELSE "in progress"
       ELSE "pending"

\* end_request
EndRequestMut(ri, t) == ri
EndRequest(ri, t) == [ri EXCEPT !.end_time = t]

\* update_request_tokens(tokens, replace) on an existing RequestInformation
UpdateTokens(ri, tokens, replace) ==
  [ri EXCEPT !.tokens = IF replace THEN tokens ELSE @ + tokens]

\* ------------------------------------------------------- CounterRateLimiter
\* (talemate/client/ratelimit.py is not part of src; modelled from the
\* specification: a counter bound to a fixed one-minute window)
\* rate_limit_counter = NoLimiter
NoLimiter == [rate_per_minute |-> 0, count |-> 0, last_reset |-> 0]

NewLimiter(rate, t) == [rate_per_minute |-> rate, count |-> 0, last_reset |-> t]

UpdateRateLimit(lim, rate) == [lim EXCEPT !.rate_per_minute = rate]

LimiterIncrement(lim, t) ==
  LET reset == t - lim.last_reset >= WindowSeconds
      base == IF reset THEN [lim EXCEPT !.count = 0, !.last_reset = t] ELSE lim
      granted == base.count < base.rate_per_minute
  IN [limiter |-> IF granted THEN [base EXCEPT !.count = @ + 1] ELSE base,
      granted |-> granted,
      reset |-> reset]

\* the rate handed to the limiter by _reconfigure_common_parameters
ConfiguredRateMut(rate) == rate + 1
ConfiguredRate(rate) == rate

\* history of the increment() results of the current window
MaxLog == MaxRate + 2
FreshLog == [results |-> <<>>, stable |-> TRUE, prev_denied |-> FALSE]

LogIncrement(log, r) ==
  IF r.reset
  THEN [log EXCEPT !.results = <<r.granted>>, !.stable = TRUE,
                   !.prev_denied = \E i \in 1..Len(log.results) : ~log.results[i]]
  ELSE [log EXCEPT !.results = IF Len(@) < MaxLog THEN Append(@, r.granted) ELSE @]

\* --------------------------------------------------- the client as a record
Cur == [rate_limit_counter |-> rate_limit_counter, admit_log |-> admit_log,
        pc |-> pc, req |-> req, processing |-> processing,
        request_information |-> request_information,
        task_poll |-> task_poll, task_generate |-> task_generate,
        gen_result |-> gen_result, first_done |-> first_done,
        retries |-> retries,
        provider_calls |-> provider_calls, emitted |-> emitted,
        denied |-> denied, wake_at |-> wake_at, flags |-> flags,
        outcome |-> outcome, revised |-> revised, abr |-> abr]

Set(c) ==
  /\ rate_limit_counter' = c.rate_limit_counter
  /\ admit_log' = c.admit_log
  /\ pc' = c.pc
  /\ req' = c.req
  /\ processing' = c.processing
  /\ request_information' = c.request_information
  /\ task_poll' = c.task_poll
  /\ task_generate' = c.task_generate
  /\ gen_result' = c.gen_result
  /\ first_done' = c.first_done
  /\ retries' = c.retries
  /\ provider_calls' = c.provider_calls
  /\ emitted' = c.emitted
  /\ denied' = c.denied
  /\ wake_at' = c.wake_at
  /\ flags' = c.flags
  /\ outcome' = c.outcome
  /\ revised' = c.revised
  /\ abr' = c.abr

Exc(kind) == [kind |-> kind, text |-> ""]
Ret(t) == [kind |-> "return", text |-> t]
NoOutcome == [kind |-> "none", text |-> ""]
NoResult == [kind |-> "none", text |-> ""]

NoEmits == [rate_limited |-> 0, rate_limit_reset |-> 0, status_error |-> 0,
            prompt_sent |-> 0]
NoFlags == [cancel_raised |-> FALSE,    \* a GenerationCancelled was raised
            failure |-> FALSE,          \* the latest provider outcome or step failed
            dispatched |-> FALSE,       \* _cancelable_generate was entered
            flag_at_dispatch |-> FALSE, \* the flag was set when the tasks were made
            flag_at_gen_done |-> FALSE, \* the flag was set when generation completed
            wait_done |-> {},           \* the done set of asyncio.wait
            popped |-> "none",          \* the task chosen by done.pop()
            initial_failed |-> FALSE,   \* the first dispatch yielded "" or raised
            last_attempt |-> "none",    \* result of the wait loop's last increment()
            admitted |-> [count |-> 0, last_reset |-> 0], \* the limiter's count and
                                        \* window right after the granted increment()
            at_call |-> "none",         \* CallState when send_prompt was called
            at_check |-> "none",        \* CallState at the precondition checks
            new_requests |-> 0,         \* calls of new_request
            processing_before |-> FALSE, \* processing at the call
            tokens_after_end |-> FALSE] \* update_request_tokens ran after end_request
NoReq == [retries |-> 0]

Emit(c, name) == [c EXCEPT !.emitted[name] = @ + 1]

\* self.rate_limit_counter.increment(), with its result
Increment(c, t) ==
  LET r == LimiterIncrement(c.rate_limit_counter, t)
  IN [c |-> [c EXCEPT !.rate_limit_counter = r.limiter,
                      !.admit_log = LogIncrement(@, r)],
      granted |-> r.granted]

\* the increment() that is the condition of the wait loop
LoopIncrement(c, t) ==
  LET a == Increment(c, t)
  IN [c |-> [a.c EXCEPT !.denied = IF a.granted THEN @ ELSE @ + 1,
                        !.flags.last_attempt =
                           IF a.granted THEN "granted" ELSE "denied",
                        !.flags.admitted =
                           IF a.granted
                           THEN [count |-> a.c.rate_limit_counter.count,
                                 last_reset |-> a.c.rate_limit_counter.last_reset]
                           ELSE @],
      granted |-> a.granted]

\* the value or exception leaves _send_prompt, and send_prompt with it
\* (send_prompt only calls abort_generation, a no-op, and re-raises)
Leave(c, o) == [c EXCEPT !.pc = "done", !.outcome = o]

\* finally: emit_status(processing=False); the limiter is incremented again
FinallyMut(c, t) == c
Finally(c, t) ==
  LET c1 == [c EXCEPT !.processing = FALSE]
  IN IF c1.rate_limit_counter # NoLimiter THEN Increment(c1, t).c ELSE c1

\* which exceptions the clause "except Exception" of _send_prompt handles:
\* GenerationCancelled is re-raised by the clause before it
HandledAsErrorMut(exc) == TRUE
HandledAsErrorNever(exc) == FALSE
HandledAsError(exc) == exc # "GenerationCancelled"

\* the except clauses and the finally of the dispatch block of _send_prompt
SendPromptExcept(c, exc, t) ==
  IF HandledAsError(exc)
  THEN Finally(Leave(Emit(c, "status_error"), Ret("")), t)
  ELSE Finally(Leave(c, Exc(exc)), t)

\* an exception is raised inside the dispatch block
Raise(c, exc, t) ==
  SendPromptExcept([c EXCEPT !.flags.failure = (exc = "Exception") \/ @,
                             !.flags.cancel_raised =
                                (exc = "GenerationCancelled") \/ @],
                   exc, t)

\* what follows auto_break_repetition: smart quotes, stopping strings,
\* the prompt_sent notification, return response; any of these steps may raise
PostProcess(c, r, t) ==
  { Finally(Leave(Emit(c, "prompt_sent"), Ret(r)), t),
    Raise(c, "Exception", t) }

\* ------------------------------------------------ util helpers (not in src)
\* util.similarity_score(response, prompt lines, 80): is_repetition.  The
\* abstract text "rep" echoes a prompt line and "new" does not; what the
\* measure says of an empty or blank text is left open.
SimilarityScore(t) ==
  IF t = "rep" THEN {TRUE} ELSE IF t = "new" THEN {FALSE} ELSE BOOLEAN

\* util.dedupe_sentences(response, matched_line, 85): the echo may be removed
\* wholly, removed leaving the novel continuation, or survive the threshold
DedupeSentences(t) == IF t = "rep" THEN {"", "new", "rep"} ELSE {t}

\* util.strip_partial_sentences: drops a trailing unfinished sentence, which
\* may be the whole text
StripPartialSentences(t) == {t, ""}

\* -------------------------------------------------- auto_break_repetition
\* cap on the provider calls of one request, beyond any budget
MaxCalls == MaxRetries + 2

\* The finalized prompt is a sequence of lines: "line" any prompt line,
\* "[$REPETITION|adj]" a reserved placeholder line, "adj" its instruction.
PlainPrompt == <<"line">>
MarkedPrompt == <<"[$REPETITION|adj]", "line", "[$REPETITION|adj]">>
Prompts == {PlainPrompt, MarkedPrompt}

\* placeholder lines: the plain one, one without instruction, one whose
\* instruction holds a "|", one whose instruction is a placeholder itself
PlaceholderLines == {"[$REPETITION|adj]", "[$REPETITION|]", "[$REPETITION|a|b]",
                     "[$REPETITION|[$REPETITION|x]]"}

\* line.startswith("[$REPETITION|")
IsPlaceholder(line) == line \in PlaceholderLines

\* line.split("|")[1][:-1]
AdjustmentMut(line) == line
Adjustment(line) ==
  IF line = "[$REPETITION|adj]" THEN "adj"
  ELSE IF line = "[$REPETITION|]" THEN ""
  ELSE IF line = "[$REPETITION|a|b]" THEN ""
  ELSE "[$REPETITIO"

\* repetition_adjustment(prompt, is_repetitive)
RepetitionAdjustmentMut(prompt, is_repetitive) == prompt
RepetitionAdjustment(prompt, is_repetitive) ==
  [i \in 1..Len(prompt) |->
     IF IsPlaceholder(prompt[i])
     THEN (IF is_repetitive THEN Adjustment(prompt[i]) ELSE "")
     ELSE prompt[i]]

\* prompt_param as generate_prompt_parameters made it: temperature in
\* hundredths, and the value under max_tokens_param_name
BaseParam == [temperature |-> 70, max_tokens |-> 64]
NoParam == [temperature |-> 0, max_tokens |-> 0]

\* jiggle_randomness(prompt_param, offset=0.5): the temperature becomes
\* random.uniform(temp + 0.15, temp + 0.5); the ends of the interval
JiggleOffsets == {15, 50}

\* the temperature jiggle_randomness leaves in prompt_config, for the value
\* off that random.uniform added to the previous temperature
JiggleRandomnessMut(prompt_config, off) ==
  [prompt_config EXCEPT !.temperature = BaseParam.temperature + off]
JiggleRandomness(prompt_config, off) ==
  [prompt_config EXCEPT !.temperature = @ + off]

\* prompt_param[self.max_tokens_param_name] += pad_max_tokens
PadMaxTokensTwice(m) == m + 64
PadMaxTokensMut(m) == m
PadMaxTokens(m) == m + 32

\* the response an iteration carries forward: the deduped text d, or the
\* raw redispatched text when strip_partial_sentences(d).strip() is empty
CarriedForwardMut(retried, d, p) == d
CarriedForward(retried, d, p) == IF Strip(p) = "" THEN retried ELSE d

NoAbr == [prompt_param |-> NoParam,      \* the dict handed to every dispatch
          first_param |-> NoParam,       \* history: its values at the first dispatch
          sent |-> <<>>,                 \* history: its values at each dispatch
          iterated |-> FALSE,            \* history: an iteration was completed
          retried |-> "",                \* history: the last redispatched text
          deduped |-> "",                \* history: what dedupe_sentences made of it
          partial |-> "",                \* history: strip_partial_sentences of that
          carried |-> "",                \* history: the response carried forward
          given_prompt |-> <<>>,         \* history: finalized_prompt as passed in
          finalized_prompt |-> <<>>,
          enabled |-> FALSE,             \* auto_break_repetition_enabled
          allowed |-> FALSE,             \* jiggle_enabled_for(kind, auto=True)
          first_response |-> "",         \* history: response as passed in
          first_repetition |-> "none",   \* history: the first is_repetition
          similarity_checks |-> 0,       \* history: calls of util.similarity_score
          flag_in_redispatch |-> FALSE,  \* history: cancel_requested became set
                                         \* while a redispatch was in flight
          returned |-> FALSE,
          response |-> "",               \* the pair auto_break_repetition returned
          prompt |-> <<>>]

\* the guard of the early return: auto-break disabled or an empty response
AbrSkipsMut(abr_enabled, r) == ~abr_enabled
AbrSkips(abr_enabled, r) == ~abr_enabled \/ Strip(r) = ""

\* the repetition check is skipped when jiggle_enabled_for(kind, auto=True)
\* answers False
KindSkipsMut(jiggle) == FALSE
KindSkips(jiggle) == ~jiggle

\* retries -= 1 at the end of an iteration
NextRetriesMut(n) == n
NextRetries(n) == n - 1

\* return response, finalized_prompt; and what follows it in _send_prompt
AbrReturn(c, r, prompt, t) ==
  PostProcess([c EXCEPT !.abr.returned = TRUE, !.abr.response = r,
                        !.abr.prompt = prompt], r, t)

\* util.similarity_score was called and answered rep
Checked(c, rep) == [c EXCEPT !.abr.similarity_checks = @ + 1]

\* while is_repetition and retries > 0: jiggle, pad, mark the prompt and
\* redispatch through self.generate; otherwise return
AbrLoop(c, r, rep, t) ==
  IF rep /\ c.retries > 0
  THEN IF c.provider_calls < MaxCalls
       THEN {LET param == [JiggleRandomness(c.abr.prompt_param, off)
                             EXCEPT !.max_tokens = PadMaxTokens(@)]
             IN [c EXCEPT !.pc = "redispatch", !.provider_calls = @ + 1,
                          !.abr.prompt_param = param,
                          !.abr.sent = Append(@, param),
                          !.abr.finalized_prompt = RepetitionAdjustment(@, TRUE)]
             : off \in JiggleOffsets}
       ELSE {}
  ELSE AbrReturn(c, r, c.abr.finalized_prompt, t)

\* entry of auto_break_repetition with the first response; abr_enabled is
\* self.auto_break_repetition_enabled and jiggle is what jiggle_enabled_for
\* answers for the request kind
AbrStart(c, r, abr_enabled, jiggle, t) ==
  IF AbrSkips(abr_enabled, r) THEN AbrReturn(c, r, c.abr.finalized_prompt, t)
  ELSE IF KindSkips(jiggle) THEN AbrReturn(c, r, c.abr.finalized_prompt, t)
  ELSE UNION { LET c1 == [Checked(c, rep) EXCEPT !.abr.first_repetition =
                                                    IF rep THEN "yes" ELSE "no"]
               IN IF ~rep
                  THEN AbrReturn(c1, r,
                                 RepetitionAdjustment(c1.abr.finalized_prompt, FALSE),
                                 t)
                  ELSE AbrLoop(c1, r, rep, t)
               : rep \in SimilarityScore(r) }

\* the rest of an iteration once the redispatched generate returned `retried`
AbrIterate(c, retried, t) ==
  UNION { LET carried == CarriedForward(retried, d, p)
              c1 == [c EXCEPT !.retries = NextRetries(@),
                              !.abr.iterated = TRUE,
                              !.abr.retried = retried,
                              !.abr.deduped = d,
                              !.abr.partial = p,
                              !.abr.carried = carried]
          IN UNION { AbrLoop(Checked(c1, rep), carried, rep, t)
                     : rep \in SimilarityScore(carried) }
          : <<d, p>> \in { <<d0, p0>> \in Texts \X Texts :
                             /\ d0 \in DedupeSentences(retried)
                             /\ p0 \in StripPartialSentences(d0) } }

\* ------------------------------------------------------------ _send_prompt
\* lines 927-961: status, parameters, finalized prompt, new_request, and the
\* two tasks of _cancelable_generate; the poll task's first test of the flag
\* runs before the generation can complete
Prepare(c, sc, t) ==
  LET c1 == [c EXCEPT !.processing = TRUE]
  IN { Raise(c1, "Exception", t),
       [c1 EXCEPT !.request_information = NewRequestInformation(t),
                  !.flags.new_requests = @ + 1,
                  !.task_poll = IF Interrupted(sc) THEN "done" ELSE "pending",
                  !.first_done = IF Interrupted(sc) THEN "poll" ELSE "none",
                  !.task_generate = "pending",
                  !.provider_calls = 1,
                  !.flags.dispatched = TRUE,
                  !.flags.flag_at_dispatch = Interrupted(sc),
                  !.pc = "waiting"] }

\* lines 916-925
PreconditionsMut(c0, sc, en, t) ==
  LET c == [c0 EXCEPT !.flags.at_check = CallState(sc, en)]
  IN IF ~sc.exists THEN {Leave(c, Exc("SceneInactiveError"))}
     ELSE IF ~sc.active THEN {Leave(c, Exc("SceneInactiveError"))}
     ELSE Prepare(c, sc, t)
Preconditions(c0, sc, en, t) ==
  LET c == [c0 EXCEPT !.flags.at_check = CallState(sc, en)]
  IN IF ~sc.exists THEN {Leave(c, Exc("SceneInactiveError"))}
     ELSE IF ~sc.active THEN {Leave(c, Exc("SceneInactiveError"))}
     ELSE IF ~en THEN {Leave(c, Exc("ClientDisabledError"))}
     ELSE Prepare(c, sc, t)

\* which exceptions of the rate-limit block are logged and passed over
\* (except Exception), GenerationCancelled being re-raised before
PassedOverMut(exc) == TRUE
PassedOver(exc) == exc # "GenerationCancelled"

\* raise GenerationCancelled at the end of the rate-limit block
RateLimitRaise(c, exc, sc, en, t) ==
  IF PassedOver(exc) THEN Preconditions(c, sc, en, t)
  ELSE {Leave([c EXCEPT !.flags.cancel_raised = TRUE], Exc(exc))}

\* the emit("rate_limit_reset") that follows the wait loop, reached both when
\* the loop condition ended the loop and when `break` did
LoopEndMut(c) == c
LoopEnd(c) == Emit(c, "rate_limit_reset")

\* one evaluation of `while not self.rate_limit_counter.increment()` and what
\* follows it up to the next suspension point
RateLimitLoop(c, sc, en, t) ==
  LET a == LoopIncrement(c, t)
  IN IF a.granted
     THEN Preconditions(LoopEnd(a.c), sc, en, t)
     ELSE LET c1 == Emit(a.c, "rate_limited")
          IN IF Interrupted(sc)
             THEN RateLimitRaise(LoopEnd(c1), "GenerationCancelled", sc, en, t)
             ELSE {[c1 EXCEPT !.pc = "rate_sleep", !.wake_at = t + SleepSeconds]}

\* the outcomes of one call of generate: a text; "" after an error that
\* generate caught and reported (ClientBase.generate, PermissionDeniedError in
\* OpenAIClient.generate); an exception re-raised (OpenAIClient.generate)
GenOutcomes == {[kind |-> "text", text |-> t] : t \in Texts} \cup
               {[kind |-> "caught", text |-> ""], [kind |-> "raised", text |-> ""]}

\* lines 961-973: the result of _cancelable_generate is w's result
AfterDispatch(c, w, n, abr_enabled, jiggle, prompt, t) ==
  IF w = "generate" /\ c.gen_result.kind = "raised"
  THEN {Raise([c EXCEPT !.flags.initial_failed = TRUE], "Exception", t)}
  ELSE LET c1 == [c EXCEPT !.request_information = EndRequest(@, t)]
       IN IF w = "poll"
          THEN {Raise(c1, "GenerationCancelled", t)}
          ELSE AbrStart([c1 EXCEPT !.req = [retries |-> n], !.retries = n,
                                   !.abr = [NoAbr EXCEPT
                                              !.prompt_param = BaseParam,
                                              !.first_param = BaseParam,
                                              !.sent = <<BaseParam>>,
                                              !.given_prompt = prompt,
                                              !.finalized_prompt = prompt,
                                              !.enabled = abr_enabled,
                                              !.allowed = jiggle,
                                              !.first_response = c.gen_result.text],
                                   !.flags.failure = (c.gen_result.kind = "caught"),
                                   !.flags.initial_failed = (c.gen_result.text = "")],
                        c.gen_result.text, abr_enabled, jiggle, t)

\* lines 1113-1146 once the redispatched generate has ended with outcome o
AfterRedispatch(c, o, t) ==
  IF o.kind = "raised" THEN {Raise(c, "Exception", t)}
  ELSE LET c1 == IF o.kind = "caught"
                 THEN Emit([c EXCEPT !.flags.failure = TRUE], "status_error")
                 ELSE [c EXCEPT !.flags.failure = FALSE]
       IN AbrIterate(c1, o.text, t)

\* --------------------------------------------------------- revision_revise
\* both except clauses (GenerationCancelled, Exception) return info.text
ReviseExceptMut(exc, text) ==
  IF exc = "GenerationCancelled" THEN Exc(exc) ELSE Ret(text)
ReviseExceptNever(exc, text) == [kind |-> exc, text |-> text]
ReviseExcept(exc, text) == Ret(text)

\* the revision method issued the request; what revision_revise returns
RevisionReviseResult(o) ==
  IF o.kind = "return" THEN {Ret("revised"), Ret("orig")}
  ELSE {ReviseExcept(o.kind, "orig")}

\* ---------------------------------------------------- the revision methods
\* Texts of the revision are sequences of tokens: "w" a run of prose, " "
\* whitespace, "N" the character's name with its colon ("N" then " " is the
\* speaker prefix f"{character.name}: "), "<" the start of any other markup,
\* and the two delimiters.
Tokens == {"w", " ", "N", "<", "<FIX>", "</FIX>"}
NamePrefix == <<"N", " ">>

SeqsUpTo(S, n) == UNION {[1..k -> S] : k \in 0..n}

\* what the provider may answer to the unslop request
Responses == SeqsUpTo(Tokens, MaxResponse)

\* info.text
InfoTexts == {<<>>, <<"w">>, <<"w", " ", "w">>, <<"N", " ">>, <<"N", " ", "w">>}

\* the text argument of the recorded rewrite_text call
RewriteTexts == {<<>>, <<"w">>, <<"N", " ", "w">>}

\* len(text) of a non-empty text, and len of what the dedupe leaves of it
Lengths == {1, 10, 20, 2001}
DedupedLengths == {0, 1, 2, 200, 201}

\* the deduped text: "d" is what is left of the prose
DedupedText(d) == IF d = 0 THEN <<>> ELSE <<"d">>

RevRet(t) == [kind |-> "return", text |-> t]
RevExc(kind) == [kind |-> kind, text |-> <<>>]
NoRevOutcome == [kind |-> "none", text |-> <<>>]

\* what one call of revision_collect_issues was given and what it found
NoFound == [collected |-> FALSE,
            method |-> "none",          \* the revision method that collects
            requested |-> FALSE,        \* the detect_bad_prose argument
            enabled |-> FALSE,          \* revision_detect_bad_prose_enabled
            style |-> [exists |-> FALSE, phrases |-> <<>>],
            detection |-> "none",       \* revision_repetition_detection_method
            threshold |-> 0,            \* revision_repetition_threshold
            min_length |-> 0,           \* revision_repetition_min_length
            sentences |-> <<>>,         \* the sentences of the text
            repetition_matches |-> {},  \* Issues.repetition_matches
            bad_prose |-> {}]           \* Issues.bad_prose, by sentence

NoRev == [pc |-> "idle", method |-> "none", text |-> <<>>, character |-> FALSE,
          prefix |-> FALSE, body |-> <<>>, min_issues |-> 1,
          collected |-> FALSE, repetition |-> 0, bad_prose |-> 0,
          original_length |-> 0, deduped_length |-> 0, deduped |-> FALSE,
          responded |-> FALSE, response |-> <<>>, fix |-> <<>>,
          focal |-> "none", revision |-> <<>>,
          requests |-> [analysis |-> 0, rewrite |-> 0, unslop |-> 0],
          notes |-> {}, raised_at |-> "none",
          result |-> NoRevOutcome, revised |-> NoRevOutcome,
          found |-> NoFound]

\* str.startswith(f"{character.name}: ")
StartsWithName(t) == Len(t) >= 2 /\ t[1] = "N" /\ t[2] = " "

\* text[len(character.name) + 2:]
StripName(t) == SubSeq(t, 3, Len(t))

\* character_name_prefix
CharacterNamePrefix(text, character) == character /\ StartsWithName(text)

\* str.strip()
RECURSIVE LStrip(_)
LStrip(t) == IF Len(t) > 0 /\ t[1] = " " THEN LStrip(SubSeq(t, 2, Len(t))) ELSE t

RECURSIVE RStrip(_)
RStrip(t) ==
  IF Len(t) > 0 /\ t[Len(t)] = " " THEN RStrip(SubSeq(t, 1, Len(t) - 1)) ELSE t

StripTokens(t) == RStrip(LStrip(t))

\* `tok in t`
Contains(t, tok) == \E i \in 1..Len(t) : t[i] = tok

\* index of the first tok in t, Len(t) + 1 when there is none
Find(t, tok) ==
  CHOOSE i \in 1..(Len(t) + 1) :
    /\ \A j \in 1..(i - 1) : t[j] # tok
    /\ i <= Len(t) => t[i] = tok

\* t.split(tok, 1)[1] and t.split(tok, 1)[0]
AfterFirst(t, tok) == SubSeq(t, Find(t, tok) + 1, Len(t))
BeforeFirst(t, tok) == SubSeq(t, 1, Find(t, tok) - 1)

\* "<" in fix
OtherMarkupMut(fix) == FALSE
OtherMarkup(fix) == \E i \in 1..Len(fix) : fix[i] \in {"<", "<FIX>", "</FIX>"}

\* lines 1158-1175 of revision_unslop: the patch, or why there is none
ExtractFix(response) ==
  IF ~Contains(response, "<FIX>")
  THEN [found |-> FALSE, fix |-> <<>>, why |-> "no <FIX>"]
  ELSE LET rest == AfterFirst(response, "<FIX>")
           closed == Contains(rest, "</FIX>")
           fix == IF closed THEN BeforeFirst(rest, "</FIX>") ELSE rest
       IN IF ~closed /\ OtherMarkup(rest)
          THEN [found |-> FALSE, fix |-> rest, why |-> "other tags"]
          ELSE IF Len(fix) = 0
               THEN [found |-> FALSE, fix |-> fix, why |-> "no fix"]
               ELSE [found |-> TRUE, fix |-> fix, why |-> "none"]

\* the speaker prefix is put back unless the revision already starts with it
ReattachMut(prefix, t) == t
Reattach(prefix, t) == IF prefix /\ ~StartsWithName(t) THEN NamePrefix \o t ELSE t

\* revision_revise: the method returned or raised m; both except clauses
\* return info.text; finally loading_status.done()
ReviseReturn(r, m) ==
  [r EXCEPT !.pc = "returned", !.result = m,
            !.revised = IF m.kind = "return" THEN m
                        ELSE ReviseExcept(m.kind, r.text)]

MethodReturn(r, t) == ReviseReturn(r, RevRet(t))
MethodRaise(r, exc, step) == ReviseReturn([r EXCEPT !.raised_at = step], RevExc(exc))

\* emit_message(header, ...) and the return that follows it
Notify(r, header, t) ==
  { MethodRaise(r, "Exception", "notification"),
    MethodReturn([r EXCEPT !.notes = @ \cup {header}], t) }

\* round((original_length - deduped_length) / original_length * 100, 2), in
\* hundredths of a percent; Python rounds a tie to the even neighbour
Reduction(l, d) ==
  LET num == 10000 * (l - d)
      q == num \div l
      r == num % l
  IN IF 2 * r > l THEN q + 1
     ELSE IF 2 * r < l THEN q
     ELSE IF q % 2 = 0 THEN q ELSE q + 1

\* if reduction > 90
ReductionTooHigh(l, d) == Reduction(l, d) > 9000

\* util.dedupe.dedupe_sentences_from_matches (not in src): the lengths a
\* text of l characters may have once the matched sentences are removed and
\* the empty quotes and asterisks dropped; dedupe never lengthens a text
DedupeSentencesFromMatchesMut(l) == DedupedLengths
DedupeSentencesFromMatches(l) == {x \in DedupedLengths : x <= l}

\* if not issues.repetition_matches
NoRepetitionMatchesMut(n) == FALSE
NoRepetitionMatches(n) == n = 0

\* revision_dedupe from line 859 on; the text has l characters and the
\* dedupe, with the empty quotes and asterisks removed, leaves d of them
RevisionDedupe(r) ==
  IF NoRepetitionMatches(r.repetition) THEN {MethodReturn(r, r.text)}
  ELSE {MethodRaise(r, "Exception", "signal")} \cup
       UNION { IF l = 0
               THEN {MethodRaise([r EXCEPT !.original_length = l],
                                 "Exception", "reduction")}
               ELSE { LET r1 == [r EXCEPT !.original_length = l,
                                          !.deduped_length = d,
                                          !.deduped = TRUE]
                      IN IF ReductionTooHigh(l, d)
                         THEN MethodReturn([r1 EXCEPT !.notes = {"Aborted dedupe"}],
                                           r.text)
                         ELSE MethodReturn(
                                [r1 EXCEPT !.notes = {"Removed repetition"}],
                                IF r.prefix THEN NamePrefix \o DedupedText(d)
                                ELSE DedupedText(d))
                      : d \in DedupeSentencesFromMatches(l) }
               : l \in (IF Len(r.body) = 0 THEN {0} ELSE Lengths) }

\* if num_issues < self.revision_min_issues
BelowMinimumMut(num, min) == FALSE
BelowMinimum(num, min) == num < min

\* revision_rewrite from line 958 up to the analysis request
RevisionRewrite(r) ==
  LET num_issues == r.repetition + r.bad_prose
  IN IF num_issues = 0 THEN {MethodReturn(r, r.text)}
     ELSE IF BelowMinimum(num_issues, r.min_issues)
          THEN Notify(r, "Aborted rewrite", r.text)
          ELSE { MethodRaise(r, "Exception", "signal"),
                 [r EXCEPT !.pc = "analysis", !.requests.analysis = @ + 1] }

\* try: revision = focal_handler.state.calls[0].result
CallReadableMut(f) == TRUE
CallReadable(f) == f.kind = "call"

\* revision_rewrite from line 1054 on; f is what the tool protocol left
RevisionRewriteResult(r, f) ==
  IF ~CallReadable(f) THEN {MethodReturn(r, r.text)}
  ELSE Notify([r EXCEPT !.revision = f.text], "Rewrite",
              Reattach(r.prefix, f.text))

\* what focal_handler.request leaves: a recorded rewrite_text call with its
\* text, no call, or a call whose result cannot be read
FocalStates == {[kind |-> "call", text |-> t] : t \in RewriteTexts} \cup
               {[kind |-> "no call", text |-> <<>>],
                [kind |-> "unreadable", text |-> <<>>]}

\* revision_unslop from line 1112 up to the request
RevisionUnslop(r) ==
  { MethodRaise(r, "Exception", "signal"),
    [r EXCEPT !.pc = "request", !.requests.unslop = @ + 1] }

\* return original_text when "<FIX>" is not in the response
UnslopWithoutFixMut(original_text, response) == response
UnslopWithoutFix(original_text, response) == original_text

\* revision_unslop from line 1156 on
RevisionUnslopResult(r0, response) ==
  LET x == ExtractFix(response)
      r == [r0 EXCEPT !.responded = TRUE, !.response = response, !.fix = x.fix]
  IN IF x.why = "no <FIX>"
     THEN {MethodReturn(r, UnslopWithoutFix(r.text, response))}
     ELSE IF ~x.found THEN {MethodReturn(r, r.text)}
     ELSE Notify([r EXCEPT !.revision = StripTokens(x.fix)], "Unslop",
                 Reattach(r.prefix, StripTokens(x.fix)))

\* what a request to the provider raises when it does not return
RequestErrors == {"GenerationCancelled", "Exception"}

\* ------------------------------------------------ text steps of the client
\* the lines a prompt is made of
PromptLines == {"line", "", "adj"} \cup PlaceholderLines

\* the prompts given to repetition_adjustment: one line up to MaxLines lines
AdjustPrompts == SeqsUpTo(PromptLines, MaxLines) \ {<<>>}

\* STOPPING_STRINGS
STOPPING_STRINGS == <<"<|im_end|>", "</s>">>

\* prompt_param.pop("extra_stopping_strings", [])
ExtraStoppingStrings == {<<>>, <<"X">>}

\* a response is a sequence of tokens: "w" prose, the two built-in stopping
\* strings, and "X", a stopping string only for a request that names it
CutTokens == {"w", "<|im_end|>", "</s>", "X"}
CutResponses == SeqsUpTo(CutTokens, MaxCut)

\* for stopping_string in STOPPING_STRINGS + extra_stopping_strings:
\*     if stopping_string in response: split, take the first part, break
RECURSIVE CutAtStoppingString(_, _)
CutAtStoppingString(response, stops) ==
  IF stops = <<>> THEN response
  ELSE IF Contains(response, Head(stops))
       THEN BeforeFirst(response, Head(stops))
       ELSE CutAtStoppingString(response, Tail(stops))

NoPost == [op |-> "none",
           given |-> <<>>,            \* the prompt or the response given
           is_repetitive |-> FALSE,   \* argument of the first call
           once |-> <<>>,             \* repetition_adjustment(given, is_repetitive)
           again |-> FALSE,           \* a second call was made on that result
           twice |-> <<>>,            \* its result
           stops |-> <<>>,            \* the stopping strings of the request
           cut |-> <<>>]              \* the response after the stopping-string cut

\* repetition_adjustment(prompt, is_repetitive)
RepetitionAdjust ==
  /\ post.op = "none"
  /\ \E prompt \in AdjustPrompts, is_repetitive \in BOOLEAN :
       post' = [NoPost EXCEPT !.op = "adjust", !.given = prompt,
                              !.is_repetitive = is_repetitive,
                              !.once = RepetitionAdjustment(prompt, is_repetitive)]
  /\ UNCHANGED <<envvars, cvars, rev, ctx>>

\* repetition_adjustment applied to its own result, as the retry loop does
RepetitionAdjustAgain ==
  /\ post.op = "adjust"
  /\ ~post.again
  /\ \E is_repetitive \in BOOLEAN :
       post' = [post EXCEPT !.again = TRUE,
                            !.twice = RepetitionAdjustment(post.once, is_repetitive)]
  /\ UNCHANGED <<envvars, cvars, rev, ctx>>

\* the stopping-string step of _send_prompt on a response
CutStoppingStrings ==
  /\ post.op = "none"
  /\ \E response \in CutResponses, extra \in ExtraStoppingStrings :
       post' = [NoPost EXCEPT !.op = "stop", !.given = response,
                              !.stops = STOPPING_STRINGS \o extra,
                              !.cut = CutAtStoppingString(response,
                                                          STOPPING_STRINGS \o extra)]
  /\ UNCHANGED <<envvars, cvars, rev, ctx>>

\* the result is used; the next text
PostDone ==
  /\ post.op # "none"
  /\ post' = NoPost
  /\ UNCHANGED <<envvars, cvars, rev, ctx>>

NextPost ==
  \/ RepetitionAdjust
  \/ RepetitionAdjustAgain
  \/ CutStoppingStrings
  \/ PostDone

\* ------------------------------------------------ ambient revision scopes
\* message ids; NoMessage is None
NoMessage == 0
MessageIds == {NoMessage, 1, 2}

\* the values of the two context variables
Ambient(c) == [disabled |-> c.disabled, message_id |-> c.message_id]

NoSignal == [handled |-> FALSE, revision_enabled |-> FALSE,
             automatic_enabled |-> FALSE, targets |-> {},
             emission |-> [type |-> "none", summarization_type |-> "none",
                           context_type |-> "none"],
             disabled |-> FALSE,      \* revision_disabled_context.get() at the call
             ran |-> FALSE,           \* revision_revise was called
             response |-> "orig"]     \* emission.response after the call

NoCtx == [disabled |-> FALSE,         \* revision_disabled_context, default False
          message_id |-> NoMessage,   \* revision_context.message_id, default None
          stack |-> <<>>,             \* the open blocks, innermost last: the token
                                      \* of each, and the values at its entry
          left |-> FALSE,             \* a block has been left
          by_exception |-> FALSE,     \* and it was left by an exception
          before |-> [disabled |-> FALSE, message_id |-> NoMessage],
                                      \* the values at the entry of that block
          signal |-> NoSignal]

\* ContextVar.reset(token): the variable gets the value it had before the
\* set() that made the token
ResetMut(token, default) == default
Reset(token, default) == token.old_value

\* with RevisionDisabled(): __enter__
EnterRevisionDisabled ==
  /\ Len(ctx.stack) < MaxDepth
  /\ ctx' = [ctx EXCEPT !.disabled = TRUE,
                        !.stack = Append(@, [kind |-> "RevisionDisabled",
                                             token |-> [old_value |-> ctx.disabled],
                                             entry |-> Ambient(ctx)]),
                        !.left = FALSE, !.signal = NoSignal]
  /\ UNCHANGED <<envvars, cvars, rev, post>>

\* with RevisionContext(message_id): __enter__
EnterRevisionContext ==
  /\ Len(ctx.stack) < MaxDepth
  /\ \E id \in MessageIds :
       ctx' = [ctx EXCEPT !.message_id = id,
                          !.stack = Append(@, [kind |-> "RevisionContext",
                                               token |-> [old_value |-> ctx.message_id],
                                               entry |-> Ambient(ctx)]),
                          !.left = FALSE, !.signal = NoSignal]
  /\ UNCHANGED <<envvars, cvars, rev, post>>

\* the innermost block is left, at its end or by an exception: __exit__
ExitBlock ==
  /\ ctx.stack # <<>>
  /\ \E exc \in BOOLEAN :
       LET block == ctx.stack[Len(ctx.stack)]
       IN ctx' = [ctx EXCEPT
                    !.disabled = IF block.kind = "RevisionDisabled"
                                 THEN Reset(block.token, FALSE) ELSE @,
                    !.message_id = IF block.kind = "RevisionContext"
                                   THEN Reset(block.token, NoMessage) ELSE @,
                    !.stack = SubSeq(@, 1, Len(@) - 1),
                    !.left = TRUE, !.by_exception = exc,
                    !.before = block.entry,
                    !.signal = NoSignal]
  /\ UNCHANGED <<envvars, cvars, rev, post>>

\* --------------------------------------------------- revision_on_generation
\* CONTEXTUAL_GENERATION_TYPES, and a type that is not among them
CONTEXTUAL_GENERATION_TYPES ==
  {"character attribute", "character detail", "world context", "scene intro"}
ContextTypes == {"character attribute", "scene intent"}

AutomaticTargets == {"contextual_generation", "character", "narrator", "summarization"}

\* revision_automatic_targets: all targets, all but one, or none
TargetSets == {AutomaticTargets, {}} \cup {AutomaticTargets \ {x} : x \in AutomaticTargets}

\* the emissions of the generation signals
Emissions ==
  {[type |-> "ContextualGenerateEmission", summarization_type |-> "none",
    context_type |-> ct] : ct \in ContextTypes}
  \cup {[type |-> ty, summarization_type |-> "none", context_type |-> "none"]
         : ty \in {"ConversationAgentEmission", "NarratorAgentEmission",
                   "LayeredHistoryFinalizeEmission"}}
  \cup {[type |-> "SummarizeEmission", summarization_type |-> st,
         context_type |-> "none"] : st \in {"dialogue", "events"}}

\* the automatic target an emission belongs to
TargetOf(emission) ==
  IF emission.type = "ContextualGenerateEmission" THEN "contextual_generation"
  ELSE IF emission.type = "ConversationAgentEmission" THEN "character"
  ELSE IF emission.type = "NarratorAgentEmission" THEN "narrator"
  ELSE "summarization"

\* the returns that depend on the emission's type and the selected targets
TargetSkips(emission, targets) ==
  \/ emission.type = "ContextualGenerateEmission"
       /\ "contextual_generation" \notin targets
  \/ emission.type = "ConversationAgentEmission" /\ "character" \notin targets
  \/ emission.type = "NarratorAgentEmission" /\ "narrator" \notin targets
  \/ emission.type = "SummarizeEmission"
       /\ \/ emission.summarization_type = "dialogue" /\ "summarization" \notin targets
          \/ emission.summarization_type = "events"
  \/ emission.type = "LayeredHistoryFinalizeEmission"
       /\ "summarization" \notin targets

\* if revision_disabled_context.get(): return
DisabledByContextMut(disabled) == FALSE
DisabledByContext(disabled) == disabled

\* the contextual-generation type is not in the allowed list
ContextTypeSkips(emission) ==
  /\ emission.type = "ContextualGenerateEmission"
  /\ emission.context_type \notin CONTEXTUAL_GENERATION_TYPES

\* revision_on_generation returns before revision_revise
OnGenerationSkips(revision_enabled, automatic_enabled, targets, emission, disabled) ==
  \/ ~revision_enabled \/ ~automatic_enabled
  \/ TargetSkips(emission, targets)
  \/ DisabledByContext(disabled)
  \/ ContextTypeSkips(emission)

\* revision_on_generation(emission), in the scopes that are open
RevisionOnGeneration ==
  /\ ~ctx.signal.handled
  /\ \E revision_enabled \in BOOLEAN, automatic_enabled \in BOOLEAN,
        targets \in TargetSets, emission \in Emissions :
       LET skips == OnGenerationSkips(revision_enabled, automatic_enabled,
                                      targets, emission, ctx.disabled)
       IN \E response \in (IF skips THEN {"orig"} ELSE {"orig", "revised"}) :
            ctx' = [ctx EXCEPT !.signal =
                      [handled |-> TRUE, revision_enabled |-> revision_enabled,
                       automatic_enabled |-> automatic_enabled,
                       targets |-> targets, emission |-> emission,
                       disabled |-> ctx.disabled,
                       ran |-> ~skips, response |-> response]]
  /\ UNCHANGED <<envvars, cvars, rev, post>>

\* the signal has been handled; the next one
SignalDone ==
  /\ ctx.signal.handled
  /\ ctx' = [ctx EXCEPT !.signal = NoSignal]
  /\ UNCHANGED <<envvars, cvars, rev, post>>

NextScopes ==
  \/ EnterRevisionDisabled
  \/ EnterRevisionContext
  \/ ExitBlock
  \/ RevisionOnGeneration
  \/ SignalDone

\* ------------------------------------------------------------------ actions
Init ==
  /\ scene = [exists |-> TRUE, active |-> TRUE, cancel_requested |-> FALSE]
  /\ enabled = TRUE
  /\ now = Epoch
  /\ rate_limit = 0
  /\ rate_limit_counter = NoLimiter
  /\ admit_log = FreshLog
  /\ pc = "idle"
  /\ req = NoReq
  /\ processing = FALSE
  /\ request_information = NoRequestInformation
  /\ task_poll = "none"
  /\ task_generate = "none"
  /\ gen_result = NoResult
  /\ first_done = "none"
  /\ retries = 0
  /\ provider_calls = 0
  /\ emitted = NoEmits
  /\ denied = 0
  /\ wake_at = 0
  /\ flags = NoFlags
  /\ outcome = NoOutcome
  /\ revised = NoOutcome
  /\ abr = NoAbr
  /\ rev = NoRev
  /\ post = NoPost
  /\ ctx = NoCtx

\* the clock advances
Tick ==
  /\ now + TickStep <= Epoch + NumTicks * TickStep
  /\ pc \notin {"done", "revised"}
  /\ now' = now + TickStep
  /\ UNCHANGED <<scene, enabled, rate_limit>>
  /\ UNCHANGED <<cvars, rev, post, ctx>>

\* the scene changes between two requests
SceneChange ==
  /\ pc = "idle"
  /\ \E s \in Scenes : s # scene /\ scene' = s
  /\ UNCHANGED <<enabled, now, rate_limit>>
  /\ UNCHANGED <<cvars, rev, post, ctx>>

\* while the request sleeps in the rate-limit wait loop the scene is closed,
\* deactivated or asked to cancel
SceneInterruptWait ==
  /\ pc = "rate_sleep"
  /\ ~Interrupted(scene)
  /\ \E s \in Scenes : Interrupted(s) /\ scene' = s
  /\ UNCHANGED <<enabled, now, rate_limit>>
  /\ UNCHANGED <<cvars, rev, post, ctx>>

\* while a provider call is in flight the scene is closed, deactivated or
\* asked to cancel
SceneInterruptDispatch ==
  /\ pc \in {"waiting", "redispatch"}
  /\ ~Interrupted(scene)
  /\ \E s \in Scenes :
       /\ Interrupted(s)
       /\ scene' = s
       /\ abr' = [abr EXCEPT !.flag_in_redispatch =
                                (pc = "redispatch" /\ s.cancel_requested)]
  /\ UNCHANGED <<enabled, now, rate_limit>>
  /\ UNCHANGED <<callvars, rev, post, ctx>>

\* reconfigure(enabled=...)
SetEnabled ==
  /\ pc = "idle"
  /\ enabled' = ~enabled
  /\ UNCHANGED <<scene, now, rate_limit>>
  /\ UNCHANGED <<cvars, rev, post, ctx>>

\* _reconfigure_common_parameters(rate_limit=rate)
Reconfigure ==
  /\ pc = "idle"
  /\ \E rate \in 0..MaxRate :
       /\ rate_limit' = rate
       /\ rate_limit_counter' =
            IF rate # 0
            THEN IF rate_limit_counter = NoLimiter
                 THEN NewLimiter(ConfiguredRate(rate), now)
                 ELSE UpdateRateLimit(rate_limit_counter, rate)
            ELSE NoLimiter
       /\ admit_log' =
            IF rate = 0 \/ rate_limit_counter = NoLimiter THEN FreshLog
            ELSE IF rate # rate_limit_counter.rate_per_minute
                 THEN [admit_log EXCEPT !.stable = FALSE]
                 ELSE admit_log
  /\ UNCHANGED <<scene, enabled, now>>
  /\ UNCHANGED <<pc, req, processing, request_information, task_poll,
                 task_generate, gen_result, first_done, retries,
                 provider_calls, emitted, denied, wake_at, flags, outcome, revised,
                 abr, rev, post, ctx>>

\* send_prompt(prompt, kind, finalize, retries) up to its first suspension;
\* the retry budget is first read by auto_break_repetition and is drawn there
SendPrompt ==
  /\ pc = "idle"
  /\ LET c0 == [Cur EXCEPT !.flags.at_call = CallState(scene, enabled),
                           !.flags.processing_before = processing]
     IN \E x \in (IF rate_limit_counter = NoLimiter
                   THEN Preconditions(c0, scene, enabled, now)
                   ELSE RateLimitLoop(c0, scene, enabled, now)) : Set(x)
  /\ UNCHANGED <<envvars, rev, post, ctx>>

\* asyncio.sleep(1) of the wait loop is over: the loop condition again
RateLimitWake ==
  /\ pc = "rate_sleep"
  /\ now >= wake_at
  /\ \E x \in RateLimitLoop(Cur, scene, enabled, now) : Set(x)
  /\ UNCHANGED <<envvars, rev, post, ctx>>

\* the poll task wakes from asyncio.sleep(0.3), finds the flag set and ends
PollCheck ==
  /\ pc = "waiting"
  /\ task_poll = "pending"
  /\ Interrupted(scene)
  /\ Set([Cur EXCEPT !.task_poll = "done",
                     !.first_done = IF @ = "none" THEN "poll" ELSE @])
  /\ UNCHANGED <<envvars, rev, post, ctx>>

\* the generation task ends
GenComplete ==
  /\ pc = "waiting"
  /\ task_generate = "pending"
  /\ \E o \in GenOutcomes :
       LET c1 == [Cur EXCEPT !.task_generate = "done",
                             !.gen_result = o,
                             !.first_done = IF @ = "none" THEN "generate" ELSE @,
                             !.flags.flag_at_gen_done = Interrupted(scene)]
       IN Set(IF o.kind = "caught" THEN Emit(c1, "status_error") ELSE c1)
  /\ UNCHANGED <<envvars, rev, post, ctx>>

DoneTasks ==
  {x \in {"poll", "generate"} :
     \/ x = "poll" /\ task_poll = "done"
     \/ x = "generate" /\ task_generate = "done"}

\* asyncio.wait returns in _cancelable_generate: the pending tasks are
\* cancelled and done.pop() takes a member of the done set, which holds both
\* tasks when the second ended before the waiter was resumed
WaitReturnWith(budgets, prompts) ==
  /\ pc = "waiting"
  /\ DoneTasks # {}
  /\ \E w \in DoneTasks, n \in budgets, prompt \in prompts,
        abr_enabled \in BOOLEAN, jiggle \in BOOLEAN :
       LET c1 == [Cur EXCEPT !.task_poll = IF @ = "pending" THEN "cancelled" ELSE @,
                             !.task_generate =
                                IF @ = "pending" THEN "cancelled" ELSE @,
                             !.flags.wait_done = DoneTasks,
                             !.flags.popped = w]
       IN \E x \in AfterDispatch(c1, w, n, abr_enabled, jiggle, prompt, now) : Set(x)
  /\ UNCHANGED <<envvars, rev, post, ctx>>

\* send_prompt called with any retry budget and prompt
WaitReturn == WaitReturnWith(0..MaxRetries, Prompts)

\* send_prompt called with retries=0 and a prompt without placeholder
WaitReturnNoRetry == WaitReturnWith({0}, {PlainPrompt})

\* the generate awaited inside auto_break_repetition ends
RedispatchComplete ==
  /\ pc = "redispatch"
  /\ \E o \in GenOutcomes :
       \E x \in AfterRedispatch(Cur, o, now) : Set(x)
  /\ UNCHANGED <<envvars, rev, post, ctx>>

\* the caller was a revision method run by revision_revise, which returns;
\* the bookkeeping of the request it made is dropped
RevisionRevise ==
  /\ pc = "done"
  /\ \E r \in RevisionReviseResult(outcome) :
       Set([Cur EXCEPT !.pc = "revised", !.revised = r,
                       !.task_poll = "none", !.task_generate = "none",
                       !.gen_result = NoResult, !.first_done = "none",
                       !.retries = 0, !.req = NoReq,
                       !.provider_calls = 0, !.emitted = NoEmits, !.denied = 0,
                       !.wake_at = 0, !.abr = NoAbr,
                       !.flags = [NoFlags EXCEPT !.cancel_raised = flags.cancel_raised]])
  /\ UNCHANGED <<envvars, rev, post, ctx>>

\* the caller has its result (at "done" the caller of send_prompt, at
\* "revised" the caller of revision_revise); the client is ready again
Complete ==
  /\ pc \in {"done", "revised"}
  /\ Set([Cur EXCEPT !.pc = "idle", !.req = NoReq, !.task_poll = "none",
                     !.task_generate = "none", !.gen_result = NoResult,
                     !.first_done = "none", !.retries = 0,
                     !.provider_calls = 0, !.emitted = NoEmits, !.denied = 0,
                     !.wake_at = 0, !.flags = NoFlags, !.outcome = NoOutcome,
                     !.revised = NoOutcome, !.abr = NoAbr])
  /\ UNCHANGED <<envvars, rev, post, ctx>>

\* revision_on_generation hands a generated text to revision_revise; the
\* method runs up to its await of revision_collect_issues
ReviseCall ==
  /\ rev.pc = "idle"
  /\ \E method \in {"dedupe", "rewrite", "unslop"}, text \in InfoTexts,
        character \in BOOLEAN :
       LET prefix == CharacterNamePrefix(text, character)
       IN rev' = [NoRev EXCEPT !.pc = "collect", !.method = method,
                               !.text = text, !.character = character,
                               !.prefix = prefix,
                               !.body = IF prefix THEN StripName(text) ELSE text]
  /\ UNCHANGED <<envvars, cvars, post, ctx>>

\* revision_collect_issues raises or returns its Issues; an empty text has
\* no sentence to match, and revision_dedupe asks for no bad-prose detection
CollectIssues ==
  /\ rev.pc = "collect"
  /\ \/ rev' = MethodRaise(rev, "Exception", "collect")
     \/ \E repetition \in 0..MaxIssues, bad_prose \in 0..MaxIssues,
           min_issues \in 1..MaxMinIssues :
          /\ Len(rev.body) = 0 => repetition = 0 /\ bad_prose = 0
          /\ rev.method = "dedupe" => bad_prose = 0
          /\ rev.method # "rewrite" => min_issues = 1
          /\ LET r == [rev EXCEPT !.collected = TRUE, !.repetition = repetition,
                                  !.bad_prose = bad_prose,
                                  !.min_issues = min_issues]
             IN rev' \in (CASE rev.method = "dedupe" -> RevisionDedupe(r)
                            [] rev.method = "rewrite" -> RevisionRewrite(r)
                            [] rev.method = "unslop" -> RevisionUnslop(r))
  /\ UNCHANGED <<envvars, cvars, post, ctx>>

\* the analysis request of revision_rewrite ends; the tool protocol is
\* requested next
AnalysisReturn ==
  /\ rev.pc = "analysis"
  /\ \/ \E exc \in RequestErrors : rev' = MethodRaise(rev, exc, "request")
     \/ rev' = [rev EXCEPT !.pc = "focal", !.requests.rewrite = @ + 1]
  /\ UNCHANGED <<envvars, cvars, post, ctx>>

\* focal_handler.request ends
FocalReturn ==
  /\ rev.pc = "focal"
  /\ \/ \E exc \in RequestErrors : rev' = MethodRaise(rev, exc, "request")
     \/ \E f \in FocalStates :
          rev' \in RevisionRewriteResult([rev EXCEPT !.focal = f.kind], f)
  /\ UNCHANGED <<envvars, cvars, post, ctx>>

\* the unslop request ends
UnslopReturn ==
  /\ rev.pc = "request"
  /\ \/ \E exc \in RequestErrors : rev' = MethodRaise(rev, exc, "request")
     \/ \E response \in Responses : rev' \in RevisionUnslopResult(rev, response)
  /\ UNCHANGED <<envvars, cvars, post, ctx>>

\* revision_on_generation stores the revised text in the emission
ReviseDone ==
  /\ rev.pc = "returned"
  /\ rev' = NoRev
  /\ UNCHANGED <<envvars, cvars, post, ctx>>

\* a client without rate limit: the dispatch, the cancellation race, the
\* repetition loop and the exception boundaries
Next ==
  \/ Tick
  \/ SceneChange
  \/ SceneInterruptDispatch
  \/ SetEnabled
  \/ SendPrompt
  \/ PollCheck
  \/ GenComplete
  \/ WaitReturn
  \/ RedispatchComplete
  \/ RevisionRevise
  \/ Complete

Spec == Init /\ [][Next]_vars

\* a client whose rate limit is configured and reconfigured, serving requests
\* sent with retries=0 in a scene that changes while they wait for admission
NextRate ==
  \/ Tick
  \/ SceneChange
  \/ SceneInterruptWait
  \/ SetEnabled
  \/ Reconfigure
  \/ SendPrompt
  \/ RateLimitWake
  \/ GenComplete
  \/ WaitReturnNoRetry
  \/ Complete

SpecRate == Init /\ [][NextRate]_vars

\* the revision of generated texts by the three methods
NextRevision ==
  \/ ReviseCall
  \/ CollectIssues
  \/ AnalysisReturn
  \/ FocalReturn
  \/ UnslopReturn
  \/ ReviseDone

SpecRevision == Init /\ [][NextRevision]_vars

\* the text steps of the client, each applied to any text
SpecPost == Init /\ [][NextPost]_vars

\* generation signals handled inside and outside the ambient revision scopes
SpecScopes == Init /\ [][NextScopes]_vars

\* ------------------------------------------------ revision_collect_issues
\* A sentence is a sequence of letters; the pattern of a phrase is the
\* literal a.
Letters == {"a", "A", "b"}
TextSentences == {<<"b", "b", "a">>, <<"b", "b", "A">>, <<"a", "b", "b">>, <<"b">>}
HistorySentences == {<<"b">>, <<"b", "b", "b">>}

\* compile_text_to_sentences(text): one or two sentences
IssueTexts == {<<x>> : x \in TextSentences}
              \cup {<<x, y>> : x \in TextSentences, y \in TextSentences}

Thresholds == {85}
MinLengths == {1, 3}
DetectionMethods == {"fuzzy", "semantic_similarity"}
Classifications == {"unwanted", "Unwanted", "wanted"}

\* the phrases of a writing style: usable stands for a phrase with a
\* pattern, instructions and the active mark
Phrases ==
  {[match_method |-> "regex", classification |-> cl, usable |-> u]
     : cl \in Classifications, u \in BOOLEAN}
  \cup {[match_method |-> "semantic_similarity", classification |-> "unwanted",
         usable |-> TRUE]}

\* scene.writing_style: none, one without phrases, one with a phrase
WritingStyles ==
  {[exists |-> FALSE, phrases |-> <<>>], [exists |-> TRUE, phrases |-> <<>>]}
  \cup {[exists |-> TRUE, phrases |-> <<ph>>] : ph \in Phrases}

\* str(phrase.classification).lower() == "unwanted"
IsUnwanted(cl) == cl \in {"unwanted", "Unwanted"}

\* re.IGNORECASE as an integer, received by Pattern.search as pos
IgnoreCaseValue == 2

\* pattern.search(sentence, pos): the compiled pattern has no flag, so the
\* literal is looked for as written, from index pos on
PatternSearch(sentence, pos) ==
  \E i \in (pos + 1)..Len(sentence) : sentence[i] = "a"

\* _revision_detect_bad_prose_regex(sentence, phrase): a finding or none
DetectBadProseRegex(sentence, phrase) ==
  IF ~IsUnwanted(phrase.classification) THEN FALSE
  ELSE PatternSearch(sentence, IgnoreCaseValue)

\* the pattern matches somewhere in the sentence when letter case is ignored
MatchesIgnoringCase(sentence) ==
  \E i \in 1..Len(sentence) : sentence[i] \in {"a", "A"}

\* revision_detect_bad_prose(text): the sets of flagged sentences it can
\* return; what the memory agent matches for a semantic phrase is open
RevisionDetectBadProse(sentences, style) ==
  IF ~style.exists \/ style.phrases = <<>> THEN {{}}
  ELSE LET ph == style.phrases[1]
           all == {sentences[i] : i \in 1..Len(sentences)}
       IN IF ~ph.usable THEN {{}}
          ELSE IF ph.match_method = "regex"
               THEN {{x \in all : DetectBadProseRegex(x, ph)}}
               ELSE SUBSET all

\* the min-length filter of the semantic path on both sentence lists
LongEnoughMut(sentence, min_length) == TRUE
LongEnough(sentence, min_length) == Len(sentence) >= min_length

\* round(x * 100, 2) of a cosine similarity x given in 1/100000: the result
\* in hundredths of a percent, ties to even
RoundScore(raw) ==
  LET q == raw \div 10
      r == raw % 10
  IN IF r > 5 \/ (r = 5 /\ q % 2 = 1) THEN q + 1 ELSE q

\* memory_agent.compare_string_lists(a, b, similarity_threshold): pairs with a
\* cosine similarity of at least the threshold and at most 1, in 1/100000
RawScores(threshold) ==
  {threshold * 1000, threshold * 1000 + 5, 99995, 100000}

CompareStringLists(a, b, threshold) ==
  UNION {SUBSET {[original |-> x, matched |-> y, raw |-> raw] : x \in a, y \in b}
         : raw \in RawScores(threshold)}

\* _revision_evaluate_semantic_similarity: the sets of SimilarityMatch
EvaluateSemanticSimilarity(sentences, history, threshold, min_length) ==
  LET text_sentences == {sentences[i] : i \in 1..Len(sentences)}
      kept == {x \in text_sentences : LongEnough(x, min_length)}
      old == {y \in history : LongEnough(y, min_length)}
  IN {{[original |-> m.original, matched |-> m.matched,
        similarity |-> RoundScore(m.raw)] : m \in ms}
      : ms \in CompareStringLists(kept, old, threshold)}

\* util.dedupe.similarity_matches(text, old_text, similarity_threshold,
\* min_length): matches of sentences of at least min_length characters, with
\* a score from the threshold to 100, here in hundredths of a percent
SimilarityMatches(sentences, history, threshold, min_length) ==
  LET kept == {sentences[i] : i \in 1..Len(sentences)}
      long(x) == Len(x) >= min_length
  IN UNION {SUBSET {[original |-> x, matched |-> y, similarity |-> sc]
                     : x \in {z \in kept : long(z)},
                       y \in {z \in history : long(z)}}
            : sc \in {threshold * 100, 10000}}

\* the repetition matches by the configured detection method
RepetitionMatches(detection, sentences, history, threshold, min_length) ==
  IF detection = "fuzzy"
  THEN SimilarityMatches(sentences, history, threshold, min_length)
  ELSE EvaluateSemanticSimilarity(sentences, history, threshold, min_length)

\* detect_bad_prose as revision_collect_issues narrows it
DetectBadProseMut(requested, is_enabled, style) == style.exists /\ requested
DetectBadProse(requested, is_enabled, style) ==
  is_enabled /\ style.exists /\ requested

\* the detect_bad_prose argument each revision method passes
RequestsBadProse(method) == method # "dedupe"

\* revision_collect_issues(text, character, detect_bad_prose), called by one
\* of the revision methods
RevisionCollectIssues ==
  /\ ~rev.found.collected
  /\ \E method \in {"dedupe", "rewrite", "unslop"}, is_enabled \in BOOLEAN,
        style \in WritingStyles, detection \in DetectionMethods,
        threshold \in Thresholds, min_length \in MinLengths,
        sentences \in IssueTexts, history \in SUBSET HistorySentences :
       \E matches \in RepetitionMatches(detection, sentences, history,
                                         threshold, min_length),
          flagged \in (IF DetectBadProse(RequestsBadProse(method), is_enabled, style)
                       THEN RevisionDetectBadProse(sentences, style)
                       ELSE {{}}) :
         rev' = [rev EXCEPT !.found =
                   [collected |-> TRUE, method |-> method,
                    requested |-> RequestsBadProse(method),
                    enabled |-> is_enabled, style |-> style,
                    detection |-> detection, threshold |-> threshold,
                    min_length |-> min_length, sentences |-> sentences,
                    repetition_matches |-> matches, bad_prose |-> flagged]]
  /\ UNCHANGED <<envvars, cvars, post, ctx>>

\* the Issues are used up; the next text is revised
IssuesDone ==
  /\ rev.found.collected
  /\ rev' = [rev EXCEPT !.found = NoFound]
  /\ UNCHANGED <<envvars, cvars, post, ctx>>

NextIssues ==
  \/ RevisionCollectIssues
  \/ IssuesDone

SpecIssues == Init /\ [][NextIssues]_vars

\* ------------------------------------------- RequestInformation on its own
\* one second passes
Second ==
  /\ now < Epoch + MaxSeconds
  /\ now' = now + 1
  /\ UNCHANGED <<scene, enabled, rate_limit>>
  /\ UNCHANGED <<cvars, rev, post, ctx>>

\* new_request()
NewRequest ==
  /\ Set([Cur EXCEPT !.request_information = NewRequestInformation(now),
                     !.flags.tokens_after_end = FALSE])
  /\ UNCHANGED <<envvars, rev, post, ctx>>

\* end_request(), on a client that has a RequestInformation
EndRequestCall ==
  /\ request_information # NoRequestInformation
  /\ Set([Cur EXCEPT !.request_information = EndRequest(@, now)])
  /\ UNCHANGED <<envvars, rev, post, ctx>>

\* update_request_tokens(tokens, replace): nothing without RequestInformation
UpdateRequestTokens ==
  /\ \E tokens \in 0..MaxTokens, replace \in BOOLEAN :
       /\ request_information # NoRequestInformation
       /\ UpdateTokens(request_information, tokens, replace).tokens <= MaxTokens
       /\ Set([Cur EXCEPT !.request_information = UpdateTokens(@, tokens, replace),
                          !.flags.tokens_after_end =
                             @ \/ request_information.end_time # 0])
  /\ UNCHANGED <<envvars, rev, post, ctx>>

NextTelemetry ==
  \/ Second
  \/ NewRequest
  \/ EndRequestCall
  \/ UpdateRequestTokens

SpecTelemetry == Init /\ [][NextTelemetry]_vars

TypeOK ==
  /\ scene \in Scenes
  /\ pc \in {"idle", "rate_sleep", "waiting", "redispatch", "done", "revised"}
  /\ retries \in 0..MaxRetries
  /\ provider_calls \in 0..MaxCalls
  /\ rev.pc \in {"idle", "collect", "analysis", "focal", "request", "returned"}
  /\ rev.revised.kind \in {"none", "return"}

\* ================================================================== claims

Cancelled == Exc("GenerationCancelled")

\* C1 as stated: when the cancellation flag became set during the dispatch,
\* before the generation task completed, the dispatch ends in
\* GenerationCancelled.
C1_FlagSetAlwaysCancels ==
  (pc = "done" /\ flags.dispatched /\ ~flags.flag_at_dispatch
     /\ (flags.flag_at_gen_done \/ task_generate = "cancelled"))
  => outcome = Cancelled

\* C1 amended: when the cancellation watch has completed and the generation
\* task has not at the moment asyncio.wait returns, _send_prompt raises
\* GenerationCancelled and no text is returned.
C1_WatchAloneDoneCancels ==
  (pc = "done" /\ flags.wait_done = {"poll"}) => outcome = Cancelled

C1_Witness ==
  /\ pc = "done"
  /\ flags.wait_done = {"poll"}
  /\ task_generate = "cancelled"
  /\ outcome = Cancelled

\* C2: _cancelable_generate returns the outcome of the task that completed
\* first.
C2_FirstCompletedWins ==
  (pc = "done" /\ flags.popped # "none") => flags.popped = first_done

\* the auto_break_repetition of this request was entered
EnteredAbr == flags.popped = "generate" /\ gen_result.kind # "raised"

\* C3: with a retry budget N, auto_break_repetition makes at most N
\* redispatches (none when N = 0), and every redispatch in flight has a
\* positive number of retries left that each iteration lowers by one.
C3_RetryBudget ==
  EnteredAbr =>
    /\ provider_calls - 1 <= req.retries
    /\ retries >= 0
    /\ pc = "redispatch" =>
         /\ retries >= 1
         /\ retries + (provider_calls - 2) = req.retries
    /\ pc = "done" =>
         retries + (provider_calls - 1) \in {req.retries, req.retries + 1}

C3_Witness ==
  /\ pc = "done"
  /\ EnteredAbr
  /\ req.retries = 2
  /\ provider_calls = 3
  /\ retries = 0
  /\ outcome = Ret("rep")

\* C4 as stated: a GenerationCancelled raised during a request reaches the
\* caller as a cancellation error, for the caller of send_prompt and for the
\* caller of revision_revise alike.
C4_CancelNeverSwallowed ==
  flags.cancel_raised =>
    /\ pc = "done" => outcome = Cancelled
    /\ pc = "revised" => revised = Cancelled

\* C4 amended: a GenerationCancelled raised during a request reaches the
\* caller of send_prompt as a cancellation error; revision_revise catches it
\* and returns the original text to its own caller.
C4_CancelReachesSendPromptCaller ==
  flags.cancel_raised =>
    /\ pc = "done" => outcome = Cancelled
    /\ pc = "revised" => revised = Ret("orig")

C4_Witness ==
  /\ pc = "revised"
  /\ flags.cancel_raised
  /\ outcome = Cancelled
  /\ revised = Ret("orig")

\* C5: when the cancellation watch wins the race, the RequestInformation has
\* its end time set, hence status 'completed', when GenerationCancelled
\* leaves send_prompt.
C5_TelemetryFinalizedOnCancel ==
  (pc = "done" /\ flags.popped = "poll") =>
    /\ outcome = Cancelled
    /\ request_information.end_time # 0
    /\ Status(request_information, now) = "completed"

C5_Witness ==
  /\ pc = "done"
  /\ flags.popped = "poll"
  /\ outcome = Cancelled
  /\ request_information.start_time < request_information.end_time
  /\ Status(request_information, now) = "completed"

\* C6: no provider failure and no exception of a step of the dispatch block
\* leaves send_prompt; when the request ended on such a failure, an 'error'
\* status notification was emitted and send_prompt returns "" (or the
\* cancellation that the watch delivered at the same time).
C6_ProviderFailureContained ==
  pc = "done" =>
    /\ outcome.kind # "Exception"
    /\ flags.failure =>
         /\ outcome = Ret("")
         /\ emitted.status_error >= 1
    /\ (flags.popped = "generate" /\ gen_result.kind = "caught") =>
         emitted.status_error >= 1

C6_Witness ==
  /\ pc = "done"
  /\ flags.popped = "generate"
  /\ gen_result.kind = "raised"
  /\ flags.failure
  /\ outcome = Ret("")
  /\ emitted.status_error = 1

\* C7: when the first dispatch yields the empty result or raises, the
\* provider is called exactly once for that send_prompt call.
C7_FailureIsTerminal ==
  flags.initial_failed => provider_calls = 1

C7_Witness ==
  /\ pc = "done"
  /\ flags.initial_failed
  /\ gen_result.kind = "caught"
  /\ provider_calls = 1
  /\ outcome = Ret("")

\* the error kind the precondition checks raise
ErrorKind(state) ==
  IF state = "client disabled" THEN "ClientDisabledError" ELSE "SceneInactiveError"

Refused(state) == state \in {"no scene", "scene inactive", "client disabled"}

\* no provider dispatch, no RequestInformation, processing untouched
NothingDispatched ==
  /\ provider_calls = 0
  /\ ~flags.dispatched
  /\ flags.new_requests = 0
  /\ processing = flags.processing_before

\* C8 as stated: a request made without scene context, with an inactive
\* scene or on a disabled client fails with SceneInactiveError resp.
\* ClientDisabledError before any dispatch.
C8_RefusedWithDistinctError ==
  (pc = "done" /\ Refused(flags.at_call)) =>
    /\ outcome.kind = ErrorKind(flags.at_call)
    /\ NothingDispatched

\* C8 amended: a request that reaches the precondition checks without scene
\* context, with an inactive scene or on a disabled client fails there with
\* SceneInactiveError resp. ClientDisabledError; a request that the rate
\* limiter denies while the scene is missing, inactive or cancelling never
\* reaches them and fails with GenerationCancelled.  Either way nothing is
\* dispatched: no generate, no RequestInformation, processing unchanged.
C8_RefusedAtChecks ==
  pc = "done" =>
    /\ Refused(flags.at_check) =>
         /\ outcome.kind = ErrorKind(flags.at_check)
         /\ NothingDispatched
    /\ flags.at_check = "none" =>
         /\ outcome = Cancelled
         /\ flags.last_attempt = "denied"
         /\ NothingDispatched
    /\ (Refused(flags.at_call) /\ denied = 0) =>
         outcome.kind = ErrorKind(flags.at_call)

C8_Witness ==
  /\ pc = "done"
  /\ flags.at_call = "client disabled"
  /\ flags.at_check = "client disabled"
  /\ denied >= 1
  /\ outcome.kind = "ClientDisabledError"
  /\ NothingDispatched

\* C9: with a limiter configured for N requests per minute, the i-th
\* increment() of a window is granted exactly when i <= N; a window that
\* follows one with a denial starts by granting again.
C9_WindowAdmitsN ==
  (rate_limit_counter # NoLimiter /\ admit_log.stable) =>
    \A i \in 1..Len(admit_log.results) :
      admit_log.results[i] = (i <= rate_limit)

C9_Witness ==
  /\ rate_limit = 2
  /\ admit_log.stable
  /\ admit_log.prev_denied
  /\ admit_log.results = <<TRUE>>
  /\ now - rate_limit_counter.last_reset < WindowSeconds

\* C10: the wait loop emits one 'rate_limited' notification per denied
\* attempt and retries after each; a request whose last attempt was denied
\* ended because the scene was missing, inactive or cancelling, with
\* GenerationCancelled and without any dispatch.
C10_RateLimitWait ==
  /\ emitted.rate_limited = denied
  /\ pc = "rate_sleep" => flags.last_attempt = "denied"
  /\ (pc = "done" /\ flags.last_attempt = "denied") =>
       /\ Interrupted(scene)
       /\ outcome = Cancelled
       /\ NothingDispatched

C10_Witness ==
  /\ pc = "done"
  /\ denied = 2
  /\ emitted.rate_limited = 2
  /\ flags.last_attempt = "denied"
  /\ outcome = Cancelled

\* C11 as stated: a request that the limiter denied at least once has emitted
\* 'rate_limit_reset' exactly once if its last attempt was granted, and not
\* at all while it waits or when it was aborted.
C11_ResetOnlyOnAdmission ==
  denied >= 1 =>
    emitted.rate_limit_reset = (IF flags.last_attempt = "granted" THEN 1 ELSE 0)

\* C11 amended: on a client with a limiter, 'rate_limit_reset' is emitted
\* exactly once per request, when its wait loop ends, be it by admission or
\* by the abort on a missing, inactive or cancelling scene; it is not emitted
\* while the request waits, nor on a client without limiter.
C11_ResetOnceAtLoopEnd ==
  /\ flags.last_attempt = "none" => emitted.rate_limit_reset = 0
  /\ pc = "rate_sleep" => emitted.rate_limit_reset = 0
  /\ (pc \in {"waiting", "done"} /\ flags.last_attempt # "none") =>
       emitted.rate_limit_reset = 1

C11_Witness ==
  /\ pc = "done"
  /\ denied >= 1
  /\ flags.last_attempt = "denied"
  /\ outcome = Cancelled
  /\ emitted.rate_limit_reset = 1

\* revision_revise has returned to its caller
Returned == rev.pc = "returned"

\* issue collection found no repetition match and no bad prose
ZeroIssues == rev.collected /\ rev.repetition = 0 /\ rev.bad_prose = 0

\* the method returned the original text info.text
ReturnedOriginal ==
  /\ rev.result.kind = "return"
  /\ rev.result.text = rev.text
  /\ rev.revised.kind = "return"
  /\ rev.revised.text = rev.text

C13_NeverEmpty ==
  (Returned /\ Len(rev.text) > 0) =>
    /\ rev.revised.kind = "return"
    /\ Len(rev.revised.text) > 0

\* C14: when the selected revision method raises at any of its steps,
\* revision_revise raises nothing and returns info.text.
C14_RevisionFailureContained ==
  Returned =>
    /\ rev.revised.kind = "return"
    /\ rev.result.kind # "return" =>
         /\ rev.raised_at # "none"
         /\ rev.revised.text = rev.text

C14_Witness ==
  /\ Returned
  /\ rev.method = "unslop"
  /\ rev.raised_at = "notification"
  /\ rev.result.kind = "Exception"
  /\ rev.text = <<"N", " ", "w">>
  /\ rev.revised = RevRet(<<"N", " ", "w">>)

\* C15: revision_unslop returns the original text, speaker prefix included,
\* when the response holds no <FIX>.
C15_NoOpeningDelimiter ==
  (Returned /\ rev.responded /\ ~Contains(rev.response, "<FIX>")) =>
    /\ ReturnedOriginal
    /\ "Unslop" \notin rev.notes

C15_Witness ==
  /\ Returned
  /\ rev.responded
  /\ rev.prefix
  /\ rev.response = <<"w", "</FIX>">>
  /\ rev.result = RevRet(<<"N", " ", "w">>)

\* the part of the response after its first <FIX>
Remainder == AfterFirst(rev.response, "<FIX>")

\* C16: when the response holds <FIX> and no </FIX> after it, revision_unslop
\* returns the original text if the remainder holds a '<', and otherwise
\* takes the whole remainder as the patch, which it returns trimmed and with
\* the speaker prefix.
C16_MissingClosingDelimiter ==
  (Returned /\ rev.responded /\ Contains(rev.response, "<FIX>")
     /\ ~Contains(Remainder, "</FIX>")) =>
    IF \E i \in 1..Len(Remainder) : Remainder[i] \in {"<", "<FIX>"}
    THEN ReturnedOriginal /\ "Unslop" \notin rev.notes
    ELSE /\ rev.fix = Remainder
         /\ (Len(Remainder) > 0 /\ rev.result.kind = "return") =>
              /\ rev.result.text = Reattach(rev.prefix, StripTokens(Remainder))
              /\ rev.notes = {"Unslop"}

C16_Witness ==
  /\ Returned
  /\ rev.responded
  /\ rev.response = <<"<FIX>", "w", "<">>
  /\ rev.text = <<"w", " ", "w">>
  /\ rev.result = RevRet(<<"w", " ", "w">>)

\* the patch the response delimits: up to </FIX>, or the whole remainder
DelimitedPatch ==
  IF Contains(Remainder, "</FIX>") THEN BeforeFirst(Remainder, "</FIX>")
  ELSE Remainder

\* C17: revision_unslop returns the original text when the patch between
\* <FIX> and </FIX> is empty after trimming, a patch of whitespace included.
C17_EmptyPatch ==
  (Returned /\ rev.responded /\ Contains(rev.response, "<FIX>")
     /\ Contains(Remainder, "</FIX>")
     /\ Len(StripTokens(DelimitedPatch)) = 0) =>
    /\ rev.result.kind = "return" => rev.result.text = rev.text
    /\ rev.revised.kind = "return"
    /\ rev.revised.text = rev.text

\* C18: in revision_rewrite, with fewer issues than min_issues the original
\* text is returned and neither the analysis nor the rewrite protocol is
\* requested.
C18_BelowMinimumIssues ==
  (rev.method = "rewrite" /\ rev.collected
     /\ rev.repetition + rev.bad_prose < rev.min_issues) =>
    /\ Returned
    /\ rev.requests.analysis = 0
    /\ rev.requests.rewrite = 0
    /\ "Rewrite" \notin rev.notes
    /\ rev.result.kind = "return" => rev.result.text = rev.text
    /\ rev.revised.kind = "return"
    /\ rev.revised.text = rev.text

C18_Witness ==
  /\ Returned
  /\ rev.method = "rewrite"
  /\ rev.min_issues = 3
  /\ rev.repetition + rev.bad_prose = 1
  /\ rev.notes = {"Aborted rewrite"}
  /\ rev.requests.analysis = 0
  /\ rev.revised = RevRet(<<"N", " ", "w">>)

\* C19: in revision_rewrite, when the tool protocol ends without a recorded
\* rewrite_text call, or the result of the call cannot be read, the original
\* text is returned and no 'Rewrite' notification is emitted.
C19_NoRewriteCall ==
  (rev.method = "rewrite" /\ rev.focal \in {"no call", "unreadable"}) =>
    /\ Returned
    /\ ReturnedOriginal
    /\ "Rewrite" \notin rev.notes

C19_Witness ==
  /\ Returned
  /\ rev.method = "rewrite"
  /\ rev.focal = "no call"
  /\ rev.requests.rewrite = 1
  /\ rev.prefix
  /\ rev.revised = RevRet(<<"N", " ", "w">>)

\* C20: revision_dedupe returns the original text when the dedupe removes
\* more than 90% of the characters (100*(L-D) > 90*L), and the deduped text
\* when it removes 90% or less.
C20_SafetyValve ==
  (Returned /\ rev.method = "dedupe" /\ rev.deduped) =>
    /\ rev.revised.kind = "return"
    /\ rev.revised.text =
         IF 100 * (rev.original_length - rev.deduped_length)
              > 90 * rev.original_length
         THEN rev.text
         ELSE (IF rev.prefix THEN NamePrefix ELSE <<>>)
                \o DedupedText(rev.deduped_length)

\* characters of the speaker prefix, when the text has one
PrefixLength == IF rev.prefix THEN 2 ELSE 0

\* len(info.text) and len of the text that revision_dedupe returned
TextLength == PrefixLength + rev.original_length
ReturnedLength ==
  IF rev.revised.text = rev.text THEN TextLength
  ELSE PrefixLength + rev.deduped_length

C22_PrefixIffPrefixed ==
  (Returned /\ rev.character) =>
    /\ rev.revised.kind = "return"
    /\ StartsWithName(rev.revised.text) = StartsWithName(rev.text)

\* C22 amended: a text that starts with the speaker prefix is returned with
\* it on every return path of the three methods, and no method prepends the
\* prefix to a text that had none: such a text comes back with the prefix
\* only when the revision written by the provider itself starts with it.
C22_PrefixReattached ==
  Returned =>
    /\ rev.revised.kind = "return"
    /\ rev.prefix => StartsWithName(rev.revised.text)
    /\ (~rev.prefix /\ StartsWithName(rev.revised.text)) =>
         \/ StartsWithName(rev.text)
         \/ rev.revised.text = rev.revision

C22_Witness ==
  /\ Returned
  /\ rev.method = "unslop"
  /\ rev.prefix
  /\ rev.response = <<"<FIX>", "w", "</FIX>">>
  /\ rev.text = <<"N", " ", "w">>
  /\ rev.notes = {"Unslop"}
  /\ rev.revised = RevRet(<<"N", " ", "w">>)

\* ------------------------------------------- claims on auto_break_repetition
\* auto_break_repetition was entered with the first response
AbrEntered == abr.first_param # NoParam

\* redispatches made so far by the retry loop
Redispatches == provider_calls - 1

\* C26 as stated: the parameters handed to the first dispatch keep their
\* original values (temperature, max output length) after any number of
\* retries.
C26_ParametersNeverMutated ==
  AbrEntered => abr.prompt_param = abr.first_param

\* C26 amended: the retry loop edits the one parameter mapping in place and
\* cumulatively: after k redispatches its max output length is the original
\* plus 32 * k and its temperature is the original raised by between 0.15 * k
\* and 0.5 * k, so it differs from the original as soon as k > 0.
C26_ParametersMutatedInPlace ==
  AbrEntered =>
    /\ abr.prompt_param.max_tokens = abr.first_param.max_tokens + 32 * Redispatches
    /\ abr.prompt_param.temperature >= abr.first_param.temperature + 15 * Redispatches
    /\ abr.prompt_param.temperature <= abr.first_param.temperature + 50 * Redispatches
    /\ (Redispatches > 0 => abr.prompt_param # abr.first_param)

C26_Witness ==
  /\ pc = "done"
  /\ abr.returned
  /\ provider_calls = 3
  /\ abr.first_param = BaseParam
  /\ abr.prompt_param = [temperature |-> 135, max_tokens |-> 128]

\* auto_break_repetition returned and one of its skip conditions held
AbrSkipCase ==
  /\ abr.returned
  /\ \/ Strip(abr.first_response) = ""
     \/ ~abr.enabled
     \/ ~abr.allowed

\* C28: when the response is empty or blank, auto-break is disabled or the
\* request kind does not allow repetition breaking, auto_break_repetition
\* returns the response and the prompt it was given unchanged, having made
\* no similarity check and no redispatch.
C28_SkipLeavesAllUnchanged ==
  AbrSkipCase =>
    /\ abr.similarity_checks = 0
    /\ provider_calls = 1
    /\ abr.response = abr.first_response
    /\ abr.prompt = abr.given_prompt

C28_Witness ==
  /\ abr.returned
  /\ abr.enabled /\ abr.allowed
  /\ abr.first_response = " "
  /\ abr.given_prompt = MarkedPrompt
  /\ abr.prompt = MarkedPrompt
  /\ abr.response = " "
  /\ abr.similarity_checks = 0

\* C29: when the first response is not a repetition of any prompt line,
\* auto_break_repetition makes no redispatch and returns the response
\* unchanged with the prompt in which every placeholder line is an empty
\* line and every other line is as given.
C29_NoRepetitionClearsPlaceholders ==
  (abr.returned /\ abr.first_repetition = "no") =>
    /\ provider_calls = 1
    /\ abr.response = abr.first_response
    /\ Len(abr.prompt) = Len(abr.given_prompt)
    /\ \A i \in 1..Len(abr.given_prompt) :
         abr.prompt[i] = IF abr.given_prompt[i] = "[$REPETITION|adj]"
                         THEN ""
                         ELSE abr.given_prompt[i]

C29_Witness ==
  /\ abr.returned
  /\ abr.first_repetition = "no"
  /\ abr.first_response = "new"
  /\ abr.given_prompt = MarkedPrompt
  /\ abr.prompt = <<"", "line", "">>
  /\ abr.response = "new"
  /\ provider_calls = 1

\* C30 as stated: a cancellation requested while a redispatch of the retry
\* loop is in flight ends the request with GenerationCancelled.
C30_RedispatchCancellable ==
  (pc = "done" /\ abr.flag_in_redispatch) => outcome = Cancelled

\* ---------------------------------------------- claims on RequestInformation
\* the status read from the fields at the current time
StatusFromFields ==
  LET ri == request_information
      st == Status(ri, now)
      elapsed == now - ri.start_time
  IN /\ st \in {"completed", "stopped", "in progress", "pending"}
     /\ (st = "completed") <=> (ri.end_time # 0)
     /\ (st = "stopped") <=>
          (ri.end_time = 0 /\ ri.start_time # 0 /\ elapsed > 1 /\ ri.tokens = 0)
     /\ (st = "in progress") <=>
          (ri.end_time = 0 /\ ri.start_time # 0 /\ ~(elapsed > 1 /\ ri.tokens = 0))
     /\ (st = "pending") <=> (ri.end_time = 0 /\ ri.start_time = 0)

\* C27: RequestInformation.status is 'completed' whenever an end time is
\* set; otherwise 'stopped' exactly when a start exists, more than one second
\* has elapsed since it and the token rate is zero; otherwise 'in progress'
\* when a start exists, and 'pending' only without a start. A status that is
\* 'completed' stays 'completed' under every further token update.
C27_StatusOfFields ==
  /\ StatusFromFields
  /\ flags.tokens_after_end => Status(request_information, now) = "completed"

C27_Witness ==
  /\ Status(request_information, now) = "completed"
  /\ flags.tokens_after_end
  /\ request_information.tokens = MaxTokens
  /\ request_information.end_time - request_information.start_time > 1

\* ------------------------------------------ claims on revision_collect_issues
\* C23: every SimilarityMatch of repetition detection, fuzzy or semantic,
\* has a score from 0 to 100, a score at or above the configured threshold,
\* and joins two sentences of at least the configured minimum length.
C23_MatchesWithinContract ==
  \A m \in rev.found.repetition_matches :
    /\ m.similarity >= 0
    /\ m.similarity <= 10000
    /\ m.similarity >= rev.found.threshold * 100
    /\ Len(m.original) >= rev.found.min_length
    /\ Len(m.matched) >= rev.found.min_length

C23_Witness ==
  /\ rev.found.collected
  /\ rev.found.detection = "semantic_similarity"
  /\ rev.found.min_length = 3
  /\ rev.found.sentences = <<<<"b">>, <<"b", "b", "a">>>>
  /\ rev.found.repetition_matches =
       {[original |-> <<"b", "b", "a">>, matched |-> <<"b", "b", "b">>,
         similarity |-> 8500]}

\* C24: the Issues hold bad-prose findings only when the caller requested
\* bad-prose detection, it is enabled in the configuration and the scene has
\* a writing style with at least one phrase; the Issues of the dedupe method
\* never hold any.
C24_BadProseOnlyWhenConfigured ==
  /\ rev.found.bad_prose # {} =>
       /\ rev.found.requested
       /\ rev.found.enabled
       /\ rev.found.style.exists
       /\ rev.found.style.phrases # <<>>
  /\ rev.found.method = "dedupe" => rev.found.bad_prose = {}

C24_Witness ==
  /\ rev.found.collected
  /\ rev.found.method = "rewrite"
  /\ rev.found.enabled
  /\ rev.found.style.phrases # <<>>
  /\ rev.found.bad_prose = {<<"b", "b", "a">>}

\* the Issues come from one usable regex phrase that was evaluated
RegexPhraseEvaluated ==
  /\ rev.found.collected
  /\ rev.found.requested /\ rev.found.enabled
  /\ rev.found.style.phrases # <<>>
  /\ rev.found.style.phrases[1].match_method = "regex"
  /\ rev.found.style.phrases[1].usable

\* C25 as stated: a regex phrase flags a sentence exactly when the phrase is
\* classified 'unwanted' and its pattern matches anywhere in the sentence
\* ignoring letter case.
C25_RegexFlagsIgnoringCase ==
  RegexPhraseEvaluated =>
    \A i \in 1..Len(rev.found.sentences) :
      LET x == rev.found.sentences[i]
      IN (x \in rev.found.bad_prose) <=>
           (/\ IsUnwanted(rev.found.style.phrases[1].classification)
            /\ MatchesIgnoringCase(x))

\* ------------------------------------------------- claims on the retry loop
\* C31: every iteration of the retry loop raises the requested maximum
\* output length by the pad of 32: the k-th redispatch is sent with the
\* initial maximum plus k times 32.
C31_PadPerIteration ==
  AbrEntered =>
    /\ Len(abr.sent) = provider_calls
    /\ \A k \in 0..Redispatches :
         abr.sent[k + 1].max_tokens = abr.first_param.max_tokens + 32 * k

C31_Witness ==
  /\ pc = "redispatch"
  /\ provider_calls = 3
  /\ abr.sent[1].max_tokens = 64
  /\ abr.sent[2].max_tokens = 96
  /\ abr.sent[3].max_tokens = 128

C33_DedupeFallback ==
  abr.iterated =>
    /\ Strip(abr.partial) # "" => abr.carried = abr.deduped
    /\ Strip(abr.partial) = "" => abr.carried = abr.retried
    /\ abr.retried # "" => abr.carried # ""

C33_Witness ==
  /\ abr.iterated
  /\ abr.retried = "rep"
  /\ abr.deduped = ""
  /\ abr.partial = ""
  /\ abr.carried = "rep"
  /\ abr.returned
  /\ abr.response = "rep"

\* --------------------------------------------- claims on the request's exits
\* the request was admitted by the limiter and dispatched, and has ended in
\* the window that admitted it
EndedInWindow ==
  /\ pc = "done"
  /\ rate_limit_counter # NoLimiter
  /\ flags.last_attempt = "granted"
  /\ flags.dispatched
  /\ rate_limit_counter.last_reset = flags.admitted.last_reset

\* C34 as stated: a send_prompt call that is admitted and dispatched consumes
\* exactly one slot of the limiter's window, the one its admission took.
C34_OneSlotPerRequest ==
  EndedInWindow => rate_limit_counter.count = flags.admitted.count

\* the request passed the precondition checks and entered the dispatch block
EnteredDispatchBlock == flags.at_check = "ready"

\* C35: the processing flag is true from the start of the dispatch
\* preparation until the request ends, and false after every exit of
\* _send_prompt that set it: return, cancellation and provider failure.
C35_ProcessingFlag ==
  /\ pc \in {"waiting", "redispatch"} => processing
  /\ (pc = "done" /\ EnteredDispatchBlock) => ~processing

C35_Witness ==
  /\ pc = "done"
  /\ EnteredDispatchBlock
  /\ flags.dispatched
  /\ outcome = Cancelled
  /\ ~processing

\* C36 as stated: a RequestInformation that send_prompt created has an end
\* time, hence status 'completed', once send_prompt has returned or raised,
\* on every exit path.
C36_TelemetryFinalizedOnEveryExit ==
  (pc = "done" /\ flags.new_requests > 0) =>
    /\ request_information.end_time # 0
    /\ Status(request_information, now) = "completed"

\* --------------------------------------------- claims on the client's text steps
\* C37: repetition_adjustment keeps the number of lines, leaves every line
\* that is not a placeholder line unchanged, and applied to its own result,
\* with either value of is_repetitive, returns that result unchanged.
C37_AdjustmentIdempotent ==
  post.op = "adjust" =>
    /\ Len(post.once) = Len(post.given)
    /\ \A i \in 1..Len(post.given) :
         ~IsPlaceholder(post.given[i]) => post.once[i] = post.given[i]
    /\ post.again => post.twice = post.once

C37_Witness ==
  /\ post.op = "adjust"
  /\ post.given = <<"[$REPETITION|[$REPETITION|x]]", "line">>
  /\ post.is_repetitive
  /\ post.once = <<"[$REPETITIO", "line">>
  /\ post.again
  /\ post.twice = post.once

\* C38 as stated: the response after the stopping-string step contains none
\* of the stopping strings, the built-in ones and the request's extra ones.
C38_NoStoppingStringLeft ==
  post.op = "stop" =>
    \A i \in 1..Len(post.stops) : ~Contains(post.cut, post.stops[i])

\* ---------------------------------------------- claims on the revision scopes
\* C39: after a RevisionDisabled or RevisionContext block is left, at its end
\* or by an exception, the disabled flag and the current message id have the
\* values they had before the block was entered, at every nesting depth.
C39_ScopesRestore ==
  ctx.left => Ambient(ctx) = ctx.before

C39_Witness ==
  /\ ctx.left
  /\ ctx.by_exception
  /\ Len(ctx.stack) = 2
  /\ ctx.stack[1].kind = "RevisionDisabled"
  /\ ctx.stack[2].kind = "RevisionContext"
  /\ ctx.disabled
  /\ ctx.message_id = 2
  /\ ctx.before = [disabled |-> TRUE, message_id |-> 2]

\* one of the conditions under which automatic revision is not to run
RevisionNotToRun ==
  LET sig == ctx.signal
  IN \/ ~sig.revision_enabled
     \/ ~sig.automatic_enabled
     \/ TargetOf(sig.emission) \notin sig.targets
     \/ sig.emission.type = "SummarizeEmission"
          /\ sig.emission.summarization_type = "events"
     \/ sig.emission.type = "ContextualGenerateEmission"
          /\ sig.emission.context_type \notin CONTEXTUAL_GENERATION_TYPES
     \/ sig.disabled

\* C40: revision_on_generation runs no revision method and leaves the
\* emission's response unchanged when revision or automatic revision is off,
\* the emission's kind is not a selected target, the emission is an 'events'
\* summarization, the contextual-generation type is not allowed, or the call
\* is made inside a RevisionDisabled scope.
C40_NoRevisionWhenOff ==
  (ctx.signal.handled /\ RevisionNotToRun) =>
    /\ ~ctx.signal.ran
    /\ ctx.signal.response = "orig"

C40_Witness ==
  /\ ctx.signal.handled
  /\ ctx.signal.revision_enabled /\ ctx.signal.automatic_enabled
  /\ ctx.signal.emission.type = "NarratorAgentEmission"
  /\ ctx.signal.targets = AutomaticTargets
  /\ ctx.signal.disabled
  /\ Len(ctx.stack) = 2
  /\ ~ctx.signal.ran
  /\ ctx.signal.response = "orig"

====
